---------------------------- MODULE Spec2Model ----------------------------
(***************************************************************************)
(* Win-CodexBar: the bootstrap-and-launch pipeline of dev.ps1 and the      *)
(* prerequisite installer scripts/setup-windows.ps1.                       *)
(*                                                                         *)
(* Strings that the scripts search with -like are sequences of tokens, so  *)
(* that "C:\mingw64\bin" is a proper prefix of "C:\mingw64\bin2".  A PATH  *)
(* value is such a string, its entries separated by the token ";".         *)
(*                                                                         *)
(* Exit codes are those of `powershell -File <script>`: the argument of an *)
(* exit statement, 1 for an unhandled terminating error, 0 when the script *)
(* runs off its end.                                                       *)
(***************************************************************************)
EXTENDS Integers, Sequences, FiniteSets, TLC

(* ---------------------------- bounds ----------------------------------- *)

\* Exit codes of the build system and of the launched application: 0..MaxExit.
MaxExit == 2

\* Number of entries of the session PATH at start.
MaxInitEntries == 2

\* Number of entries of the user PATH at start.
MaxInitUserEntries == 1

\* get_providers requests that can be outstanding at once in the model.
MaxInFlight == 2

\* Refresh triggers counted while one request is outstanding.
MaxIgnored == 1

(* ---------------------------- strings ---------------------------------- *)

Sep == ";"

\* setup-windows.ps1: $CargoBin, $MinGWBin; dev.ps1: $knownPaths
CargoBin == <<"~\\.cargo\\bin">>
MinGWBin == <<"C:\\mingw64\\bin">>
\* another directory a PATH may hold: its name extends that of $MinGWBin
MinGWBin2 == <<"C:\\mingw64\\bin", "2">>

knownPaths == <<CargoBin, MinGWBin>>

Dirs == {CargoBin, MinGWBin, MinGWBin2}

\* PowerShell: $s -like "*$d*"
Like(s, d) ==
    \E i \in 0..(Len(s) - Len(d)) : SubSeq(s, i + 1, i + Len(d)) = d

\* PowerShell: "$d;$s"
Prepend(d, s) == d \o <<Sep>> \o s

RECURSIVE Split(_)
\* the entries of a PATH value, as the command lookup reads it
Split(s) ==
    IF \A i \in 1..Len(s) : s[i] # Sep
    THEN <<s>>
    ELSE LET k == CHOOSE i \in 1..Len(s) :
                      s[i] = Sep /\ \A j \in 1..(i - 1) : s[j] # Sep
         IN  <<SubSeq(s, 1, k - 1)>> \o Split(SubSeq(s, k + 1, Len(s)))

Entries(s) == LET es == Split(s) IN {es[i] : i \in 1..Len(es)}

Occurrences(s, d) ==
    LET es == Split(s) IN Cardinality({i \in 1..Len(es) : es[i] = d})

RECURSIVE JoinPath(_)
JoinPath(ds) ==
    IF ds = <<>> THEN <<>>
    ELSE IF Len(ds) = 1 THEN ds[1]
    ELSE Prepend(ds[1], JoinPath(Tail(ds)))


(* ---------------------------- PathRegistry ------------------------------ *)

\* a session add that prepends without testing
SessionAdd_NoTest(env, dir) == Prepend(dir, env)

\* setup-windows.ps1 lines 42-44: if ($env:PATH -notlike "*$dir*") { prepend }
SessionAdd(env, dir) == IF ~Like(env, dir) THEN Prepend(dir, env) ELSE env

\* SetEnvironmentVariable("PATH", "$dir", "User"): $current left out
UserAdd_Overwrite(user, dir) == IF ~Like(user, dir) THEN dir ELSE user

\* setup-windows.ps1 lines 34-40: the same test on the user-scope PATH
UserAdd(user, dir) == IF ~Like(user, dir) THEN Prepend(dir, user) ELSE user

(* ---------------------------- file system ------------------------------- *)

CargoExe == "~\\.cargo\\bin\\cargo.exe"
RustupExe == "~\\.cargo\\bin\\rustup.exe"
DlltoolExe == "C:\\mingw64\\bin\\dlltool.exe"
\* a dlltool.exe of another installation, outside $MinGWDir
Dlltool2Exe == "C:\\mingw64\\bin2\\dlltool.exe"
\* the rest of the WinLibs archive, which comes after the marker
GccExe == "C:\\mingw64\\bin\\gcc.exe"
CargoBinDir == "~\\.cargo\\bin"
MinGWBinDir == "C:\\mingw64\\bin"
rustupInit == "%TEMP%\\rustup-init.exe"
zipPath == "%TEMP%\\winlibs.zip"
setupScript == "scripts\\setup-windows.ps1"

DebugA == "rust\\target\\debug\\codexbar.exe"
DebugB == "rust\\target\\x86_64-pc-windows-gnu\\debug\\codexbar.exe"
ReleaseA == "rust\\target\\release\\codexbar.exe"
ReleaseB == "rust\\target\\x86_64-pc-windows-gnu\\release\\codexbar.exe"

Artifacts == {DebugA, DebugB, ReleaseA, ReleaseB}

\* the file that a command name resolves to in a directory of the PATH
ExeIn(dir, cmd) ==
    IF dir = CargoBin /\ cmd = "cargo" THEN CargoExe
    ELSE IF dir = CargoBin /\ cmd = "rustup" THEN RustupExe
    ELSE IF dir = MinGWBin /\ cmd = "dlltool" THEN DlltoolExe
    ELSE IF dir = MinGWBin /\ cmd = "gcc" THEN GccExe
    ELSE IF dir = MinGWBin2 /\ cmd = "dlltool" THEN Dlltool2Exe
    ELSE "none"

\* Get-Command <cmd> -ErrorAction SilentlyContinue, as a boolean
GetCommand(cmd, env, files) ==
    \E d \in Entries(env) : ExeIn(d, cmd) \in files

\* Test-Path on a directory of $knownPaths
DirOf(dir) == IF dir = CargoBin THEN CargoBinDir
              ELSE IF dir = MinGWBin THEN MinGWBinDir
              ELSE "none"

TestPath(p, files) == p \in files

(* ---------------------------- dev.ps1 helpers --------------------------- *)

RECURSIVE KnownPathsLoop(_, _, _)
\* dev.ps1 lines 41-45, from the i-th known path on
KnownPathsLoop(i, env, files) ==
    IF i > Len(knownPaths) THEN env
    ELSE LET p == knownPaths[i]
         IN  KnownPathsLoop(i + 1,
                 IF TestPath(DirOf(p), files) /\ ~Like(env, p)
                 THEN Prepend(p, env) ELSE env,
                 files)

\* $profile (part_000 line 101; dev.ps1 lines 100-104)
Profile(release) == IF release THEN "release" ELSE "debug"

\* a candidate list that goes on to the other profile's output directories
Candidates_AnyProfile(v, release) ==
    IF release THEN <<ReleaseA, ReleaseB, DebugA, DebugB>>
    ELSE <<DebugA, DebugB, ReleaseA, ReleaseB>>

\* $candidates (part_000 lines 102-105); dev.ps1 has the first path only
Candidates(v, release) ==
    IF v = "part_000"
    THEN IF release THEN <<ReleaseA, ReleaseB>> ELSE <<DebugA, DebugB>>
    ELSE IF release THEN <<ReleaseA>> ELSE <<DebugA>>

\* Select-Object -Last 1 in place of -First 1
FirstExisting_Last(cands, files) ==
    IF \A i \in 1..Len(cands) : cands[i] \notin files
    THEN "none"
    ELSE cands[CHOOSE i \in 1..Len(cands) :
                   /\ cands[i] \in files
                   /\ \A j \in (i + 1)..Len(cands) : cands[j] \notin files]

\* $candidates | Where-Object { Test-Path $_ } | Select-Object -First 1
FirstExisting(cands, files) ==
    IF \A i \in 1..Len(cands) : ~TestPath(cands[i], files)
    THEN "none"
    ELSE cands[CHOOSE i \in 1..Len(cands) :
                   /\ TestPath(cands[i], files)
                   /\ \A j \in 1..(i - 1) : ~TestPath(cands[j], files)]

\* the verbosity token appended instead of prepended
LaunchArgs_Appended(verbose) ==
    IF verbose THEN <<"menubar">> \o <<"-v">> ELSE <<"menubar">>

\* $args_ (part_000 lines 115-118)
LaunchArgs(verbose) == IF verbose THEN <<"-v">> \o <<"menubar">> ELSE <<"menubar">>

\* exit code of a script that runs off its end (no exit statement)
ScriptEndExitCode == 0

\* exit code of a script stopped by an unhandled terminating error
TerminatingErrorExitCode == 1


(* ---------------------------- state ------------------------------------- *)

VARIABLES
    variant,        \* the source file that runs: a revision of dev.ps1
                    \* ("part_000", "dev.ps1"), "setup-windows.ps1" itself,
                    \* or a revision of the frontend ("app.js", "part_001")
    Release, SkipBuild, Verbose,    \* param() switches
    pc,             \* position of the run in the script
    envPath,        \* $env:PATH of the session
    userPath,       \* user-scope PATH (persisted)
    fs,             \* files and directories that exist
    hasCargo, hasDlltool,           \* $hasCargo, $hasDlltool
    LASTEXITCODE,   \* $LASTEXITCODE
    exitCode,       \* exit code of the run, -1 while it runs or when it
                    \* was interrupted
    cwd,            \* location stack: <<>> at the caller's directory
    knownAdded,     \* known paths the run put on the session PATH at start
    setupRuns,      \* times the setup script was invoked in this run
    addLog,         \* Add-ToUserPath calls of this run: <<dir, branch>>
    missing,        \* $missing: the tools the first check reported missing
    installLog,     \* what the setup script did in this run, in order
    built,          \* profile cargo build was invoked with, or "none"
    buildExit,      \* exit code cargo build returned, -1 if it has not
    artifact,       \* executable the build of this run wrote, or "none"
    searched,       \* candidate paths printed by the not-found message
    launched,       \* binary started by the run, or "none"
    launchArgs,     \* argument vector it was started with
    childExit       \* exit code of the launched process, -1 before it ends

\* state of the frontend (rust/ui/app.js)
VARIABLES
    providers,          \* let providers: the list of provider objects
    selectedProvider,   \* let selectedProvider: <<>> for null, <<object>>
    isRefreshing,       \* let isRefreshing
    inFlight,           \* get_providers requests that have not settled
    tabBar,             \* the tabs in #tabBar: <<[name, active], ...>>
    tabsCurrent,        \* renderTabs has completed since providers was set
    settled,            \* how the last request settled, "none" before it
                        \* did and once the next one has started
    ignored             \* refresh triggers that returned at line 250 since
                        \* the outstanding request started

ui == <<providers, selectedProvider, isRefreshing, inFlight, tabBar,
        tabsCurrent, settled, ignored>>

vars == <<ui, variant, Release, SkipBuild, Verbose, pc, envPath, userPath, fs,
          hasCargo, hasDlltool, LASTEXITCODE, exitCode, cwd, knownAdded,
          setupRuns, addLog, missing, installLog, built, buildExit, artifact,
          searched, launched, launchArgs, childExit>>

config == <<variant, Release, SkipBuild, Verbose>>
runLog == <<knownAdded, setupRuns, addLog, missing, installLog, built,
            buildExit, artifact, searched, launched, launchArgs, childExit>>
runState == <<hasCargo, hasDlltool, LASTEXITCODE, exitCode, cwd>>

ExitCodes == 0..MaxExit

Terminal == {"Done", "BuildFailed", "BuildError", "NotFound",
             "MissingPrerequisite", "InstallFailed", "SetupScriptMissing",
             "Interrupted"}

(* ---------------------------- initial states ---------------------------- *)

Distinct(ds) ==
    \A i, j \in 1..Len(ds) : i # j => ds[i] # ds[j]

\* PATH values without duplicate entries, of at most n entries
InitPaths(n) ==
    {JoinPath(ds) : ds \in {x \in UNION {[1..k -> Dirs] : k \in 0..n} : Distinct(x)}}

CargoStates == {{}, {CargoBinDir}, {CargoBinDir, CargoExe, RustupExe},
                {CargoBinDir, RustupExe}, {CargoBinDir, CargoExe}}
\* what Expand-Archive leaves at $MinGWDir when it completes
Extracted == {MinGWBinDir, DlltoolExe, GccExe}

\* what it can leave when it does not: nothing, the directory, or the
\* directory with the entries up to and including the marker
PartlyExtracted == {{}, {MinGWBinDir}, {MinGWBinDir, DlltoolExe}}

MinGWStates == {{}, {MinGWBinDir}, Extracted}

InitRun ==
    /\ pc = "start"
    /\ hasCargo = FALSE /\ hasDlltool = FALSE
    /\ LASTEXITCODE = 0
    /\ exitCode = -1
    /\ cwd = <<>>
    /\ knownAdded = {}
    /\ setupRuns = 0
    /\ addLog = <<>>
    /\ missing = {}
    /\ installLog = <<>>
    /\ built = "none"
    /\ buildExit = -1
    /\ artifact = "none"
    /\ searched = <<>>
    /\ launched = "none"
    /\ launchArgs = <<>>
    /\ childExit = -1

\* app.js lines 22-25: the frontend before anything has happened
InitUI ==
    /\ providers = <<>>
    /\ selectedProvider = <<>>
    /\ isRefreshing = FALSE
    /\ inFlight = 0
    /\ tabBar = <<>>
    /\ tabsCurrent = FALSE
    /\ settled = "none"
    /\ ignored = 0

Toolchain == {CargoBinDir, CargoExe, RustupExe} \cup Extracted

\* A build artifact exists only on a machine whose toolchain is installed.
Init ==
    /\ variant \in {"part_000", "dev.ps1"}
    /\ Release \in BOOLEAN /\ SkipBuild \in BOOLEAN /\ Verbose \in BOOLEAN
    /\ envPath \in InitPaths(MaxInitEntries)
    /\ userPath \in InitPaths(MaxInitUserEntries)
    /\ \E c \in CargoStates, m \in MinGWStates, s \in SUBSET {setupScript},
          a \in SUBSET Artifacts :
            /\ a # {} => Toolchain \subseteq c \cup m
            /\ fs = c \cup m \cup s \cup a
    /\ InitRun
    /\ InitUI


(* ---------------------------- setup-windows.ps1 ------------------------- *)

\* Add-ToUserPath with the session update inside the first branch only
AddToUserPathFn_SessionInBranch(user, env, dir) ==
    [user   |-> UserAdd(user, dir),
     branch |-> IF ~Like(user, dir) THEN "added" ELSE "already",
     env    |-> IF ~Like(user, dir) THEN SessionAdd(env, dir) ELSE env]

\* function Add-ToUserPath($dir): the user PATH, the session PATH and the
\* branch taken by the first test
AddToUserPathFn(user, env, dir) ==
    [user   |-> UserAdd(user, dir),
     branch |-> IF ~Like(user, dir) THEN "added" ELSE "already",
     env    |-> SessionAdd(env, dir)]

\* an entry of installLog: an operation, the file or directory it is about,
\* whether what it produces was there before, and how it ended
Did(op, target, present, result) ==
    [op |-> op, target |-> target, present |-> present, result |-> result]

\* Invoke-WebRequest without the Test-Path in front of it
DownloadIfAbsent_Always(path, files) ==
    <<Did("download", path, TestPath(path, files), "ok")>>

\* lines 90-92: if (-not (Test-Path $zipPath)) { Invoke-WebRequest ... }
DownloadIfAbsent(path, files) ==
    IF TestPath(path, files) THEN <<>>
    ELSE <<Did("download", path, FALSE, "ok")>>

\* a call of Add-ToUserPath, after the operations in ops
AddToUserPath(dir, ops) ==
    LET r == AddToUserPathFn(userPath, envPath, dir)
    IN  /\ userPath' = r.user
        /\ envPath' = r.env
        /\ addLog' = Append(addLog, <<dir, r.branch>>)
        /\ installLog' = installLog \o ops \o
               <<Did("register", DirOf(dir), Like(userPath, dir), "ok")>>

\* an unhandled terminating error ($ErrorActionPreference = 'Stop') in the
\* setup script ends the setup script and dev.ps1, which called it
SetupAborts ==
    /\ pc' = "InstallFailed"
    /\ exitCode' = TerminatingErrorExitCode

\* the user stops the script (Ctrl+C) while an external program runs
SetupInterrupted ==
    /\ pc' = "Interrupted"
    /\ UNCHANGED exitCode

\* 1. Rust
RustStep ==
    /\ pc = "setup_rust"
    /\ UNCHANGED ui
    /\ UNCHANGED <<config, hasCargo, hasDlltool, LASTEXITCODE, cwd, knownAdded,
                   setupRuns, missing, built, buildExit, artifact, searched, launched,
                   launchArgs, childExit>>
    /\ IF GetCommand("rustup", envPath, fs)
       THEN /\ pc' = "setup_target"
            /\ UNCHANGED <<envPath, userPath, fs, exitCode, addLog, installLog>>
       ELSE LET cached == TestPath(rustupInit, fs)
                inPlace == TestPath(RustupExe, fs)
                download == Did("download", rustupInit, cached, "ok")
            IN
            \/ \* Invoke-WebRequest fails
               /\ SetupAborts
               /\ installLog' = Append(installLog,
                                    Did("download", rustupInit, cached, "failed"))
               /\ UNCHANGED <<envPath, userPath, fs, addLog>>
            \/ \* downloaded; rustup-init.exe installs, or exits non-zero;
               \* the file may be gone when Remove-Item runs
               \E installed \in BOOLEAN, there \in BOOLEAN :
                 /\ fs' = (fs \cup (IF installed
                                    THEN {CargoBinDir, CargoExe, RustupExe}
                                    ELSE {})) \ {rustupInit}
                 /\ AddToUserPath(CargoBin,
                        <<download,
                          Did("run", rustupInit, inPlace,
                              IF installed THEN "ok" ELSE "failed"),
                          Did("remove", rustupInit, there, "ok")>>)
                 /\ pc' = "setup_target"
                 /\ UNCHANGED exitCode

\* 1. Rust, stopped by the user when rustup-init.exe has installed and
\* before Remove-Item and Add-ToUserPath
RustInstallInterrupted ==
    /\ pc = "setup_rust"
    /\ UNCHANGED ui
    /\ ~GetCommand("rustup", envPath, fs)
    /\ fs' = fs \cup {rustupInit, CargoBinDir, CargoExe, RustupExe}
    /\ installLog' = installLog \o
           <<Did("download", rustupInit, TestPath(rustupInit, fs), "ok"),
             Did("run", rustupInit, TestPath(RustupExe, fs), "interrupted")>>
    /\ SetupInterrupted
    /\ UNCHANGED <<config, envPath, userPath, hasCargo, hasDlltool,
                   LASTEXITCODE, cwd, knownAdded, setupRuns, addLog, missing,
                   built, buildExit, artifact, searched, launched, launchArgs, childExit>>

\* 2. GNU target
GnuTargetStep ==
    /\ pc = "setup_target"
    /\ UNCHANGED ui
    /\ UNCHANGED <<config, envPath, userPath, fs, hasCargo, hasDlltool,
                   LASTEXITCODE, cwd, knownAdded, setupRuns, addLog, missing,
                   built, buildExit, artifact, searched, launched, launchArgs, childExit>>
    /\ IF GetCommand("rustup", envPath, fs)
       THEN /\ pc' = "setup_mingw"
            /\ installLog' = Append(installLog,
                                 Did("rustup", "target list", TRUE, "ok"))
            /\ UNCHANGED exitCode
       ELSE /\ SetupAborts
            /\ installLog' = Append(installLog,
                                 Did("rustup", "target list", FALSE, "failed"))

\* 3. MinGW-w64 (WinLibs)
MinGWStep ==
    /\ pc = "setup_mingw"
    /\ UNCHANGED ui
    /\ UNCHANGED <<config, hasCargo, hasDlltool, LASTEXITCODE, cwd, knownAdded,
                   setupRuns, missing, built, buildExit, artifact, searched, launched,
                   launchArgs, childExit>>
    /\ IF GetCommand("dlltool", envPath, fs)
       THEN /\ pc' = "setup_verify"
            /\ UNCHANGED <<envPath, userPath, fs, exitCode, addLog, installLog>>
       ELSE IF TestPath(DlltoolExe, fs)
       THEN /\ AddToUserPath(MinGWBin, <<>>)
            /\ pc' = "setup_verify"
            /\ UNCHANGED <<fs, exitCode>>
       ELSE LET cached == TestPath(zipPath, fs)
                download == DownloadIfAbsent(zipPath, fs)
                inPlace == Extracted \subseteq fs
            IN
            \/ \* Invoke-WebRequest fails (only tried when the zip is absent)
               /\ ~cached
               /\ SetupAborts
               /\ installLog' = Append(installLog,
                                    Did("download", zipPath, FALSE, "failed"))
               /\ UNCHANGED <<envPath, userPath, fs, addLog>>
            \/ \* Expand-Archive fails
               \E partial \in PartlyExtracted :
                 /\ fs' = fs \cup {zipPath} \cup partial
                 /\ SetupAborts
                 /\ installLog' = installLog \o download \o
                        <<Did("extract", zipPath, inPlace, "failed")>>
                 /\ UNCHANGED <<envPath, userPath, addLog>>
            \/ \* extracted; the zip may be gone when Remove-Item runs
               \E there \in BOOLEAN :
               /\ fs' = (fs \cup Extracted) \ {zipPath}
               /\ AddToUserPath(MinGWBin,
                      download \o <<Did("extract", zipPath, inPlace, "ok"),
                                    Did("remove", zipPath, there, "ok")>>)
               /\ pc' = "setup_verify"
               /\ UNCHANGED exitCode

\* 3. MinGW-w64, stopped by the user during Expand-Archive or right after
\* it, before Remove-Item and Add-ToUserPath
ExtractInterrupted ==
    /\ pc = "setup_mingw"
    /\ UNCHANGED ui
    /\ ~GetCommand("dlltool", envPath, fs)
    /\ ~TestPath(DlltoolExe, fs)
    /\ \E partial \in PartlyExtracted \cup {Extracted} :
         fs' = fs \cup {zipPath} \cup partial
    /\ installLog' = installLog \o DownloadIfAbsent(zipPath, fs) \o
           <<Did("extract", zipPath, Extracted \subseteq fs, "interrupted")>>
    /\ SetupInterrupted
    /\ UNCHANGED <<config, envPath, userPath, hasCargo, hasDlltool,
                   LASTEXITCODE, cwd, knownAdded, setupRuns, addLog, missing,
                   built, buildExit, artifact, searched, launched, launchArgs, childExit>>

\* 4. Verify: prints, catches its own errors, changes nothing; the script
\* ends and control returns to dev.ps1 when dev.ps1 called it
VerifyStep ==
    /\ pc = "setup_verify"
    /\ UNCHANGED ui
    /\ IF variant = "setup-windows.ps1"
       THEN pc' = "SetupDone" /\ exitCode' = ScriptEndExitCode
       ELSE pc' = "recheck" /\ UNCHANGED exitCode
    /\ UNCHANGED <<config, envPath, userPath, fs, hasCargo, hasDlltool,
                   LASTEXITCODE, cwd, runLog>>

(* ---------------------------- dev.ps1 ----------------------------------- *)

\* lines 40-45
EnsureKnownPaths ==
    /\ pc = "start"
    /\ UNCHANGED ui
    /\ envPath' = KnownPathsLoop(1, envPath, fs)
    /\ knownAdded' = {knownPaths[i] : i \in {j \in 1..Len(knownPaths) :
                          knownPaths[j] \in Entries(envPath') \ Entries(envPath)}}
    /\ pc' = "check"
    /\ UNCHANGED <<config, userPath, fs, runState, setupRuns, addLog, missing,
                   installLog, built, buildExit, artifact, searched, launched,
                   launchArgs, childExit>>

\* lines 49-66
CheckPrerequisites ==
    /\ pc = "check"
    /\ UNCHANGED ui
    /\ hasCargo' = GetCommand("cargo", envPath, fs)
    /\ hasDlltool' = GetCommand("dlltool", envPath, fs)
    /\ UNCHANGED <<config, envPath, userPath, fs, LASTEXITCODE, cwd, knownAdded,
                   addLog, installLog, built, buildExit, artifact, searched, launched,
                   launchArgs, childExit>>
    /\ missing' = (IF hasCargo' THEN {} ELSE {"cargo (Rust)"})
                      \cup (IF hasDlltool' THEN {} ELSE {"dlltool (MinGW-w64)"})
    /\ IF hasCargo' /\ hasDlltool'
       THEN pc' = "build" /\ UNCHANGED <<exitCode, setupRuns>>
       ELSE IF ~TestPath(setupScript, fs)
       THEN /\ pc' = "SetupScriptMissing"
            /\ exitCode' = 1
            /\ UNCHANGED setupRuns
       ELSE /\ pc' = "setup_rust"
            /\ setupRuns' = setupRuns + 1
            /\ UNCHANGED exitCode

\* -and in place of -or
StillMissing_And(hc, hd) == ~hc /\ ~hd

\* line 71: if (-not $hasCargo -or -not $hasDlltool)
StillMissing(hc, hd) == ~hc \/ ~hd

\* a re-check that first reloads the user PATH into the session
Recheck_Refreshing ==
    /\ pc = "recheck"
    /\ UNCHANGED ui
    /\ envPath' = Prepend(userPath, envPath)
    /\ hasCargo' = GetCommand("cargo", envPath', fs)
    /\ hasDlltool' = GetCommand("dlltool", envPath', fs)
    /\ UNCHANGED <<config, userPath, fs, LASTEXITCODE, cwd, runLog>>
    /\ IF StillMissing(hasCargo', hasDlltool')
       THEN pc' = "MissingPrerequisite" /\ exitCode' = 1
       ELSE pc' = "build" /\ UNCHANGED exitCode

\* lines 68-76
Recheck ==
    /\ pc = "recheck"
    /\ UNCHANGED ui
    /\ hasCargo' = GetCommand("cargo", envPath, fs)
    /\ hasDlltool' = GetCommand("dlltool", envPath, fs)
    /\ UNCHANGED <<config, envPath, userPath, fs, LASTEXITCODE, cwd, runLog>>
    /\ IF StillMissing(hasCargo', hasDlltool')
       THEN pc' = "MissingPrerequisite" /\ exitCode' = 1
       ELSE pc' = "build" /\ UNCHANGED exitCode

\* where cargo puts the executable of a profile: target\<profile>, or
\* target\<triple>\<profile> when a build target is configured
BuildOutputs(release) ==
    IF release THEN {ReleaseA, ReleaseB} ELSE {DebugA, DebugB}

\* a build stage that ignores the switch
RunsBuild_Always(skip) == TRUE

\* line 81: if (-not $SkipBuild)
RunsBuild(skip) == ~skip

\* a build failure that is reported but does not end the run
AfterBuild_Continue(code) == [pc |-> "resolve", exit |-> -1]

\* a failed build that is started again instead of ending the run
AfterBuild_Retry(code) ==
    IF code # 0 THEN [pc |-> "build", exit |-> -1]
    ELSE [pc |-> "resolve", exit |-> -1]

\* exit 1 in place of exit $LASTEXITCODE
AfterBuild_Exit1(code) ==
    IF code # 0 THEN [pc |-> "BuildFailed", exit |-> 1]
    ELSE [pc |-> "resolve", exit |-> -1]

\* lines 87, 91: if ($LASTEXITCODE -ne 0) { exit $LASTEXITCODE }
AfterBuild(code) ==
    IF code # 0 THEN [pc |-> "BuildFailed", exit |-> code]
    ELSE [pc |-> "resolve", exit |-> -1]

\* Pop-Location after the try block instead of in finally: skipped by exit
LocationAfterBuild_NoFinally(stack, code) ==
    IF code = 0 THEN SubSeq(stack, 1, Len(stack) - 1) ELSE stack

\* lines 93-95: finally { Pop-Location }, whatever the build returned
LocationAfterBuild(stack, code) == SubSeq(stack, 1, Len(stack) - 1)

\* lines 81-86/90: Push-Location, cargo build started
Build ==
    /\ pc = "build"
    /\ UNCHANGED ui
    /\ UNCHANGED <<config, envPath, userPath, fs, hasCargo, hasDlltool,
                   LASTEXITCODE, exitCode, knownAdded, setupRuns, addLog,
                   missing, installLog, buildExit, artifact, searched, launched,
                   launchArgs, childExit>>
    /\ IF RunsBuild(SkipBuild)
       THEN /\ cwd' = Append(cwd, "rust")
            /\ built' = Profile(Release)
            /\ pc' = "building"
       ELSE pc' = "resolve" /\ UNCHANGED <<cwd, built>>

\* lines 87/91-95: cargo build returned; exit on failure; finally Pop-Location
BuildReturns ==
    /\ pc = "building"
    /\ UNCHANGED ui
    /\ UNCHANGED <<config, envPath, userPath, hasCargo, hasDlltool, knownAdded,
                   setupRuns, addLog, missing, installLog, built, searched,
                   launched, launchArgs, childExit>>
    /\ \E c \in ExitCodes :
         /\ cwd' = LocationAfterBuild(cwd, c)
         /\ LASTEXITCODE' = c
         /\ buildExit' = c
         /\ pc' = AfterBuild(c).pc
         /\ exitCode' = AfterBuild(c).exit
         /\ IF c # 0
            THEN UNCHANGED <<fs, artifact>>
            ELSE \E out \in BuildOutputs(Release) :
                    /\ fs' = fs \cup {out}
                    /\ artifact' = out

\* lines 83-95: the build is stopped by the user, or cargo cannot be started
\* (a terminating error): the finally block runs and the script ends
BuildThrows ==
    /\ pc = "building"
    /\ UNCHANGED ui
    /\ cwd' = LocationAfterBuild(cwd, -1)
    /\ \/ pc' = "Interrupted" /\ UNCHANGED exitCode
       \/ pc' = "BuildError" /\ exitCode' = TerminatingErrorExitCode
    /\ UNCHANGED <<config, envPath, userPath, fs, hasCargo, hasDlltool,
                   LASTEXITCODE, runLog>>

\* part_000 lines 100-122: resolve the binary, compose the arguments, start it
Run ==
    /\ pc = "resolve"
    /\ UNCHANGED ui
    /\ UNCHANGED <<config, envPath, userPath, fs, hasCargo, hasDlltool,
                   LASTEXITCODE, cwd, knownAdded, setupRuns, addLog, missing,
                   installLog, built, buildExit, artifact, childExit>>
    /\ LET candidates == Candidates(variant, Release)
           binary == FirstExisting(candidates, fs)
       IN  IF binary = "none"
           THEN /\ searched' = candidates
                /\ exitCode' = 1
                /\ pc' = "NotFound"
                /\ UNCHANGED <<launched, launchArgs>>
           ELSE /\ launched' = binary
                /\ launchArgs' = LaunchArgs(Verbose)
                /\ pc' = "running"
                /\ UNCHANGED <<searched, exitCode>>

\* the launched process ends; the script has no statement after the call
ChildExits ==
    /\ pc = "running"
    /\ UNCHANGED ui
    /\ \E c \in ExitCodes :
         /\ childExit' = c
         /\ LASTEXITCODE' = c
    /\ exitCode' = ScriptEndExitCode
    /\ pc' = "Done"
    /\ UNCHANGED <<config, envPath, userPath, fs, hasCargo, hasDlltool, cwd,
                   knownAdded, setupRuns, addLog, missing, installLog, built,
                   buildExit, artifact, searched, launched, launchArgs>>

\* the script is invoked again in the same session, with any switches
Rerun ==
    /\ pc \in Terminal
    /\ UNCHANGED ui
    /\ Release' \in BOOLEAN /\ SkipBuild' \in BOOLEAN /\ Verbose' \in BOOLEAN
    /\ pc' = "start"
    /\ hasCargo' = FALSE /\ hasDlltool' = FALSE
    /\ LASTEXITCODE' = 0
    /\ exitCode' = -1
    /\ knownAdded' = {}
    /\ setupRuns' = 0
    /\ addLog' = <<>>
    /\ missing' = {}
    /\ installLog' = <<>>
    /\ built' = "none"
    /\ buildExit' = -1
    /\ artifact' = "none"
    /\ searched' = <<>>
    /\ launched' = "none"
    /\ launchArgs' = <<>>
    /\ childExit' = -1
    /\ UNCHANGED <<variant, envPath, userPath, fs, cwd>>

Next ==
    \/ EnsureKnownPaths
    \/ CheckPrerequisites
    \/ RustStep
    \/ GnuTargetStep
    \/ MinGWStep
    \/ VerifyStep
    \/ Recheck
    \/ Build
    \/ BuildReturns
    \/ BuildThrows
    \/ Run
    \/ ChildExits
    \/ Rerun

Spec == Init /\ [][Next]_vars

(* ---------------------------- runs that are not interrupted ------------- *)

\* One invocation of dev.ps1.  The script is sequential: when every external
\* process (download, vendor installer, extraction, build, launched
\* application) returns and the user does not stop the script, the statement
\* that is next always runs.
NextLive ==
    \/ EnsureKnownPaths
    \/ CheckPrerequisites
    \/ RustStep
    \/ GnuTargetStep
    \/ MinGWStep
    \/ VerifyStep
    \/ Recheck
    \/ Build
    \/ BuildReturns
    \/ Run
    \/ ChildExits

\* -Verbose only adds "-v" to the arguments of the launched process (line
\* 116); the runs followed to their end are those without it
InitLive == Init /\ ~Verbose

SpecLive == InitLive /\ [][NextLive]_vars /\ WF_vars(NextLive)

(* ---------------------------- setup-windows.ps1 run directly ------------ *)

\* .\scripts\setup-windows.ps1 on a machine that has neither Rust nor MinGW
\* at $MinGWDir yet: it may have cached downloads, a bin directory left by a
\* broken extraction, and a dlltool of another installation
InitSetup ==
    /\ variant = "setup-windows.ps1"
    /\ Release = FALSE /\ SkipBuild = FALSE /\ Verbose = FALSE
    /\ envPath \in InitPaths(MaxInitEntries)
    /\ userPath \in InitPaths(MaxInitUserEntries)
    /\ \E t \in SUBSET {rustupInit, zipPath}, m \in SUBSET {MinGWBinDir},
          d \in SUBSET {Dlltool2Exe} :
            fs = t \cup m \cup d
    /\ InitUI
    /\ pc = "setup_rust"
    /\ hasCargo = FALSE /\ hasDlltool = FALSE
    /\ LASTEXITCODE = 0
    /\ exitCode = -1
    /\ cwd = <<>>
    /\ knownAdded = {}
    /\ setupRuns = 1
    /\ addLog = <<>>
    /\ missing = {}
    /\ installLog = <<>>
    /\ built = "none"
    /\ buildExit = -1
    /\ artifact = "none"
    /\ searched = <<>>
    /\ launched = "none"
    /\ launchArgs = <<>>
    /\ childExit = -1

\* the setup script is run again in the same session
SetupRerun ==
    /\ pc \in {"SetupDone", "InstallFailed", "Interrupted"}
    /\ UNCHANGED ui
    /\ pc' = "setup_rust"
    /\ exitCode' = -1
    /\ setupRuns' = setupRuns
    /\ addLog' = <<>>
    /\ installLog' = <<>>
    /\ UNCHANGED <<config, envPath, userPath, fs, hasCargo, hasDlltool,
                   LASTEXITCODE, cwd, knownAdded, missing, built, buildExit, artifact,
                   searched, launched, launchArgs, childExit>>

NextSetup ==
    \/ RustStep
    \/ RustInstallInterrupted
    \/ GnuTargetStep
    \/ MinGWStep
    \/ ExtractInterrupted
    \/ VerifyStep
    \/ SetupRerun

SpecSetup == InitSetup /\ [][NextSetup]_vars

(* ---------------------------- frontend: rust/ui/app.js ----------------- *)

\* names of three of the providers of PROVIDER_ICONS, in the order the
\* backend lists them
ProviderNames == <<"codex", "claude", "cursor">>

\* identities of the lists of objects that can be referenced at once: the
\* list in providers, the object in selectedProvider, and a new list
ListIds == {0, 1, 2}

\* what the frontend reads of a provider: p.name, p.percent (null or a
\* number), p.error (falsy or not); id tells the objects of one list from
\* those of another
Provider(id, name, percent, error) ==
    [id |-> id, name |-> name, percent |-> percent, error |-> error]

\* percent and error of a provider: with data, without a percentage, with
\* an error; the last provider of the list is one that always fails
ProviderStates(name) ==
    IF name = ProviderNames[Len(ProviderNames)] THEN {<<"null", TRUE>>}
    ELSE {<<"50", FALSE>>, <<"null", FALSE>>, <<"50", TRUE>>}

RECURSIVE ListsFrom(_, _)
\* the lists get_providers or a providers-updated event can deliver: any of
\* the providers from the i-th on, each in any state, as new objects
ListsFrom(i, id) ==
    IF i > Len(ProviderNames) THEN {<<>>}
    ELSE LET rest == ListsFrom(i + 1, id)
         IN  rest \cup
             {<<Provider(id, ProviderNames[i], pe[1], pe[2])>> \o r :
                 pe \in ProviderStates(ProviderNames[i]), r \in rest}

\* an identity that no object in use has
FreshId(provs, sel) ==
    CHOOSE id \in ListIds :
        /\ \A i \in 1..Len(provs) : provs[i].id # id
        /\ \A i \in 1..Len(sel) : sel[i].id # id

\* line 110: p.percent !== null && !p.error
HasData(p) == p.percent # "null" /\ ~p.error

\* providers.find(p => p.name === name): <<>> for undefined
Find(provs, name) ==
    IF \A i \in 1..Len(provs) : provs[i].name # name THEN <<>>
    ELSE <<provs[CHOOSE i \in 1..Len(provs) :
                    /\ provs[i].name = name
                    /\ \A j \in 1..(i - 1) : provs[j].name # name]>>

\* lines 110-113: $tabProviders
TabProviders(provs) ==
    LET successfulProviders == SelectSeq(provs, HasData)
    IN  IF Len(successfulProviders) > 0 THEN successfulProviders
        ELSE SubSeq(provs, 1, IF Len(provs) < 2 THEN Len(provs) ELSE 2)

\* renderTabs (lines 108-144): the tabs written to #tabBar, none for the
\* "Loading..." text
RenderTabs(provs, sel) ==
    LET tabProviders == TabProviders(provs)
    IN  [i \in 1..Len(tabProviders) |->
            [name   |-> tabProviders[i].name,
             active |-> sel # <<>> /\ sel[1].name = tabProviders[i].name]]

\* a guard that lets every trigger through
MayStart_Always(refreshing) == TRUE

\* line 250: if (isRefreshing) return;
MayStart(refreshing) == ~refreshing

\* isRefreshing = false at the end of the try block instead of in finally
RefreshingAfterSettle_TryOnly(outcome) == outcome # "resolved"

\* lines 274-276: finally { isRefreshing = false; }
RefreshingAfterSettle(outcome) == FALSE

\* app.js: initial load, 60-second timer, visibility change; part_001 has a
\* refresh button as well
Triggers(v) ==
    IF v = "part_001"
    THEN {"DOMContentLoaded", "setInterval", "visibilitychange", "refreshBtn"}
    ELSE {"DOMContentLoaded", "setInterval", "visibilitychange"}

pipeline == <<Release, SkipBuild, Verbose, pc, envPath, userPath, fs,
              runState, runLog>>

InitFrontend ==
    /\ variant \in {"app.js", "part_001"}
    /\ Release = FALSE /\ SkipBuild = FALSE /\ Verbose = FALSE
    /\ envPath = <<>> /\ userPath = <<>> /\ fs = {}
    /\ pc = "frontend"
    /\ hasCargo = FALSE /\ hasDlltool = FALSE
    /\ LASTEXITCODE = 0
    /\ exitCode = -1
    /\ cwd = <<>>
    /\ knownAdded = {}
    /\ setupRuns = 0
    /\ addLog = <<>>
    /\ missing = {}
    /\ installLog = <<>>
    /\ built = "none"
    /\ buildExit = -1
    /\ artifact = "none"
    /\ searched = <<>>
    /\ launched = "none"
    /\ launchArgs = <<>>
    /\ childExit = -1
    /\ InitUI

\* refreshProviders is called (lines 249-254): by the initial load, the
\* timer, a visibility change, or the refresh button of part_001
RefreshTrigger ==
    /\ pc = "frontend"
    /\ \E t \in Triggers(variant) :
         IF MayStart(isRefreshing)
         THEN /\ inFlight < MaxInFlight
              /\ isRefreshing' = TRUE
              /\ inFlight' = inFlight + 1
              /\ settled' = "none"
              /\ ignored' = 0
         ELSE /\ ignored < MaxIgnored
              /\ ignored' = ignored + 1
              /\ UNCHANGED <<isRefreshing, inFlight, settled>>
    /\ UNCHANGED <<providers, selectedProvider, tabBar, tabsCurrent>>
    /\ UNCHANGED <<variant, pipeline>>

\* selectProvider(provider) (lines 146-151) where renderTabs completes
SelectProvider(provs, provider) ==
    /\ selectedProvider' = <<provider>>
    /\ tabBar' = RenderTabs(provs, <<provider>>)
    /\ tabsCurrent' = TRUE

\* lines 255-273 with the result of get_providers; an exception can leave
\* renderTabs (before it writes #tabBar) or renderProviderDetail
RenderResult(result, throwAt) ==
    /\ providers' = result
    /\ IF throwAt = "renderTabs"
       THEN /\ tabsCurrent' = FALSE
            /\ UNCHANGED <<selectedProvider, tabBar>>
       ELSE IF selectedProvider = <<>> /\ Len(result) > 0
       THEN LET withData == SelectSeq(result, HasData)
            IN  SelectProvider(result,
                    IF withData # <<>> THEN withData[1] ELSE result[1])
       ELSE IF selectedProvider # <<>>
                  /\ Find(result, selectedProvider[1].name) # <<>>
       THEN SelectProvider(result,
                Find(result, selectedProvider[1].name)[1])
       ELSE /\ throwAt = "none"
            /\ tabBar' = RenderTabs(result, selectedProvider)
            /\ tabsCurrent' = TRUE
            /\ UNCHANGED selectedProvider

\* the get_providers request settles and refreshProviders runs to its end
\* (lines 254-277; part_001 lines 95-105)
RequestSettles ==
    /\ pc = "frontend"
    /\ inFlight > 0
    /\ inFlight' = inFlight - 1
    /\ ignored' = 0
    /\ UNCHANGED <<variant, pipeline>>
    /\ \/ \* invoke rejects
          /\ settled' = "rejected"
          /\ isRefreshing' = RefreshingAfterSettle("rejected")
          /\ UNCHANGED <<providers, selectedProvider, tabBar, tabsCurrent>>
       \/ \* invoke resolves
          \E throwAt \in {"none", "renderTabs", "renderProviderDetail"} :
            /\ settled' = IF throwAt = "none" THEN "resolved" ELSE "threw"
            /\ isRefreshing' = RefreshingAfterSettle(settled')
            /\ IF variant = "part_001"
               THEN /\ throwAt # "renderTabs"
                    /\ UNCHANGED <<providers, selectedProvider, tabBar,
                                   tabsCurrent>>
               ELSE \E result \in ListsFrom(1, FreshId(providers,
                                                      selectedProvider)) :
                        RenderResult(result, throwAt)

\* the providers-updated listener (app.js lines 340-350)
ProvidersUpdated ==
    /\ pc = "frontend"
    /\ variant = "app.js"
    /\ \E payload \in ListsFrom(1, FreshId(providers, selectedProvider)) :
         /\ providers' = payload
         /\ \/ tabBar' = RenderTabs(payload, selectedProvider)
                  /\ tabsCurrent' = TRUE
            \/ \* renderTabs throws
               tabsCurrent' = FALSE /\ UNCHANGED tabBar
    /\ UNCHANGED <<selectedProvider, isRefreshing, inFlight, settled, ignored>>
    /\ UNCHANGED <<variant, pipeline>>

\* a click on a tab (lines 135-142)
TabClick ==
    /\ pc = "frontend"
    /\ \E i \in 1..Len(tabBar) :
         LET provider == Find(providers, tabBar[i].name)
         IN  /\ provider # <<>>
             /\ SelectProvider(providers, provider[1])
    /\ UNCHANGED <<providers, isRefreshing, inFlight, settled, ignored>>
    /\ UNCHANGED <<variant, pipeline>>

NextFrontend ==
    \/ RefreshTrigger
    \/ RequestSettles
    \/ ProvidersUpdated
    \/ TabClick

SpecFrontend == InitFrontend /\ [][NextFrontend]_vars

(* ---------------------------- properties -------------------------------- *)

\* the run has passed the Run section: the binary was looked for
Resolved == pc \in {"running", "Done", "NotFound"}

\* the run has passed the re-check that follows the setup script
Rechecked ==
    /\ setupRuns > 0
    /\ pc \in {"MissingPrerequisite", "build", "building", "BuildFailed",
               "BuildError", "resolve", "running", "Done", "NotFound"}

\* C1: when cargo build returns a non-zero exit code c, the run ends with
\* exit code c and has neither looked for the binary nor launched one.
C1_BuildExitPropagated ==
    (buildExit # -1 /\ buildExit # 0) =>
        /\ pc = "BuildFailed"
        /\ exitCode = buildExit
        /\ searched = <<>>
        /\ launched = "none"

C1_Witness ==
    /\ buildExit = 2
    /\ pc = "BuildFailed"
    /\ exitCode = 2
    /\ Release

\* C2: a run that ends in Done has the exit code of the process it launched.
C2_ExitCodeOfChild ==
    pc = "Done" => exitCode = childExit

\* C3: when the setup script ran and the re-check still finds cargo or dlltool
\* missing, the run ends with exit code 1 and has not built, looked for the
\* binary or launched anything.
C3_StillMissingIsFatal ==
    (Rechecked /\ (~hasCargo \/ ~hasDlltool)) =>
        /\ pc = "MissingPrerequisite"
        /\ exitCode = 1
        /\ built = "none"
        /\ searched = <<>>
        /\ launched = "none"

C3_Witness ==
    /\ pc = "MissingPrerequisite"
    /\ setupRuns = 1
    /\ hasCargo /\ ~hasDlltool
    /\ exitCode = 1

C5_LaunchedFromSelectedProfile ==
    /\ launched # "none" =>
          launched \in (IF Release THEN {ReleaseA, ReleaseB} ELSE {DebugA, DebugB})
    /\ (Resolved /\ fs \cap (IF Release THEN {ReleaseA, ReleaseB}
                             ELSE {DebugA, DebugB}) = {}) => launched = "none"

C5_Witness ==
    /\ pc = "NotFound"
    /\ ~Release
    /\ fs \cap Artifacts = {ReleaseA}
    /\ launched = "none"

\* C6: the launched binary gets <<"-v", "menubar">> with Verbose and
\* <<"menubar">> without, whatever Release and SkipBuild are.
C6_ArgumentVector ==
    launched # "none" =>
        launchArgs = IF Verbose THEN <<"-v", "menubar">> ELSE <<"menubar">>

C6_Witness ==
    /\ launched # "none"
    /\ Verbose /\ Release /\ SkipBuild
    /\ launchArgs = <<"-v", "menubar">>

\* C7: with SkipBuild the run never invokes cargo build, and an artifact that
\* exists at a candidate path is launched.
C7_SkipBuildSkipsBuild ==
    SkipBuild =>
        /\ built = "none" /\ buildExit = -1
        /\ pc \notin {"building", "BuildFailed"}
        /\ (Resolved /\ \E i \in 1..Len(Candidates(variant, Release)) :
                            Candidates(variant, Release)[i] \in fs)
              => (launched \in fs /\ pc # "NotFound")

C7_Witness ==
    /\ SkipBuild /\ ~Release
    /\ pc = "Done"
    /\ built = "none"
    /\ launched = DebugA

\* C8: no entry occurs twice in the session PATH or in the user PATH.
C8_NoDuplicateEntries ==
    /\ \A d \in Entries(envPath) : Occurrences(envPath, d) = 1
    /\ \A d \in Entries(userPath) : Occurrences(userPath, d) = 1

\* the start-up loop and Add-ToUserPath both added CargoBin in one run, to a
\* user PATH that already had it
C8_Witness ==
    /\ CargoBin \in knownAdded
    /\ \E i \in 1..Len(addLog) : addLog[i] = <<CargoBin, "already">>
    /\ Occurrences(envPath, CargoBin) = 1
    /\ Occurrences(userPath, CargoBin) = 1

\* C9: after a path-add of dir, dir is an entry of the list: of both lists
\* after Add-ToUserPath, of the session PATH after the start-up loop when the
\* directory exists.
C9_SubstringSafe ==
    /\ \A i \in 1..Len(addLog) :
          /\ addLog[i][1] \in Entries(userPath)
          /\ addLog[i][1] \in Entries(envPath)
    /\ pc = "check" =>
          \A i \in 1..Len(knownPaths) :
              TestPath(DirOf(knownPaths[i]), fs) => knownPaths[i] \in Entries(envPath)

\* C10: after Add-ToUserPath of dir, in either branch of its first test, the
\* session PATH has passed the session test for dir.
C10_SessionAddInBothBranches ==
    \A i \in 1..Len(addLog) :
        /\ addLog[i][2] \in {"added", "already"}
        /\ Like(envPath, addLog[i][1])

C10_Witness ==
    /\ \E i \in 1..Len(addLog) : addLog[i][2] = "added"
    /\ \E i \in 1..Len(addLog) :
          /\ addLog[i] = <<MinGWBin, "already">>
          /\ MinGWBin \notin knownAdded
          /\ MinGWBin \in Entries(envPath)

\* b ends with a
IsSuffix(a, b) ==
    /\ Len(a) <= Len(b)
    /\ SubSeq(b, Len(b) - Len(a) + 1, Len(b)) = a

\* C11: every step that changes the user PATH leaves the entries it had in
\* it, in the same order: the old entry list is the tail of the new one.
C11_UserPathOnlyGrowsAtFront ==
    [][userPath' # userPath => IsSuffix(Split(userPath), Split(userPath'))]_vars

\* two adds to the user PATH, the second one in front of the first
C11_Witness ==
    /\ Len(addLog) = 2
    /\ addLog[1] = <<CargoBin, "added">>
    /\ addLog[2] = <<MinGWBin, "added">>
    /\ Split(userPath) = <<MinGWBin, CargoBin, <<>>>>

\* C12: an install step that failed is the last thing the setup script did,
\* and the script has ended in failure: nothing is run, removed or registered
\* after a failed download, a non-zero exit of rustup-init.exe or a failed
\* extraction.
C12_FailureAbortsImmediately ==
    \A i \in 1..Len(installLog) :
        installLog[i].result = "failed" =>
            /\ i = Len(installLog)
            /\ pc = "InstallFailed"
            /\ exitCode # ScriptEndExitCode

\* C13: cargo build runs with the Rust project root as location, and once the
\* build stage is left (build succeeded, build failed, error or interruption)
\* the location is the one the script was called from.
C13_BuildLocationRestored ==
    /\ pc = "building" => cwd = <<"rust">>
    /\ pc # "building" => cwd = <<>>

\* the build returned a non-zero exit code and the script ended through exit
C13_Witness ==
    /\ pc = "BuildFailed"
    /\ buildExit = 1
    /\ cwd = <<>>

\* C14: the run moves through its stages in the specified order only.  The
\* check follows the start; the setup script is entered from the first check
\* with a tool missing, and never a second time; the re-check follows the
\* setup script; the build stage follows a check or re-check that found both
\* tools; cargo build runs unless -SkipBuild; the binary is looked for after
\* a skipped or a successful build; a binary is launched only when the search
\* of this run found it; and a run that has ended does nothing more.
C14_StageOrder ==
    [][LET Installing == {"setup_rust", "setup_target", "setup_mingw",
                          "setup_verify"}
       IN  /\ pc' = "check" => pc = "start"
           /\ pc' = "setup_rust" =>
                 pc = "check" /\ (~hasCargo' \/ ~hasDlltool') /\ setupRuns = 0
           /\ pc' \in Installing \ {"setup_rust"} => pc \in Installing
           /\ pc' = "recheck" => pc = "setup_verify" /\ setupRuns = 1
           /\ pc' = "build" =>
                 pc \in {"check", "recheck"} /\ hasCargo' /\ hasDlltool'
           /\ pc' = "building" => pc = "build" /\ ~SkipBuild
           /\ pc' = "resolve" =>
                 \/ pc = "build" /\ SkipBuild
                 \/ pc = "building" /\ buildExit' = 0
           /\ pc' = "running" =>
                 pc = "resolve" /\ launched' \in fs /\ launched = "none"
           /\ pc' = "Done" => pc = "running"
           /\ pc \in Terminal => pc' = "start"
    ]_vars

\* one run went through every stage: check, setup script, re-check, build,
\* resolution, launch
C14_Witness ==
    /\ pc = "Done"
    /\ missing # {}
    /\ setupRuns = 1
    /\ buildExit = 0
    /\ launched # "none"

\* C15: with -Release, without -SkipBuild and -Verbose, both tools resolvable
\* at the first check and a successful build, a run that ends in Done has not
\* run the setup script, has built the release profile, has launched a binary
\* of the release profile with the arguments <<"menubar">>, and has the exit
\* code of the launched process.
C15_ReleaseScenario ==
    (/\ Release /\ ~SkipBuild /\ ~Verbose
     /\ missing = {} /\ buildExit = 0
     /\ pc = "Done") =>
        /\ setupRuns = 0
        /\ installLog = <<>>
        /\ built = "release"
        /\ launched \in {ReleaseA, ReleaseB}
        /\ launchArgs = <<"menubar">>
        /\ exitCode = childExit

\* C16: the check and the re-check leave the session PATH, the user PATH and
\* the file system as they were; $hasCargo and $hasDlltool are true or false
\* as the tool resolves or not; and a missing tool is no error: the run goes
\* on to the setup script (first check, when the script is there) or ends
\* with the missing-prerequisite exit (re-check).
C16_CheckHasNoSideEffects ==
    [][(pc \in {"check", "recheck"}) =>
          /\ UNCHANGED <<envPath, userPath, fs>>
          /\ hasCargo' = GetCommand("cargo", envPath, fs)
          /\ hasDlltool' = GetCommand("dlltool", envPath, fs)
          /\ pc' \in {"build", "setup_rust", "SetupScriptMissing",
                      "MissingPrerequisite"}
          /\ (pc = "check" /\ TestPath(setupScript, fs) /\ ~hasCargo')
                 => pc' = "setup_rust"
          /\ (pc = "check" /\ TestPath(setupScript, fs) /\ ~hasDlltool')
                 => pc' = "setup_rust"
    ]_vars

\* both probes have run before and after the setup script, cargo missing
\* both times
C16_Witness ==
    /\ pc = "MissingPrerequisite"
    /\ setupRuns = 1
    /\ "cargo (Rust)" \in missing
    /\ ~hasCargo /\ hasDlltool

\* C17: a MinGW step that goes on to the verification without extracting
\* found the marker "$MinGWBin\dlltool.exe"; with the bin directory there and
\* the marker not, it extracts; and with the bin directory there and the
\* archive not completely extracted, it extracts.
C17_MarkerDecides ==
    [][(pc = "setup_mingw" /\ pc' = "setup_verify") =>
          LET extracts == \E i \in 1..Len(installLog') :
                              installLog'[i].op = "extract"
          IN  /\ ~extracts => TestPath(DlltoolExe, fs)
              /\ (TestPath(MinGWBinDir, fs) /\ ~TestPath(DlltoolExe, fs))
                     => extracts
              /\ (TestPath(MinGWBinDir, fs) /\ ~(Extracted \subseteq fs))
                     => extracts
    ]_vars

C19_Idempotent ==
    /\ \A i \in 1..Len(installLog) :
          installLog[i].op \in {"run", "extract"} => ~installLog[i].present
    /\ \A d \in {CargoBin, MinGWBin} :
          Occurrences(envPath, d) <= 1 /\ Occurrences(userPath, d) <= 1

\* C20: when the setup script has run to its end, it has run rustup-init.exe
\* if the check reported cargo missing, and has extracted the archive or
\* registered $MinGWBin if the check reported dlltool missing.
C20_MissingToolInstalled ==
    pc = "recheck" =>
        /\ "cargo (Rust)" \in missing =>
              \E i \in 1..Len(installLog) :
                  installLog[i].op = "run" /\ installLog[i].target = rustupInit
        /\ "dlltool (MinGW-w64)" \in missing =>
              \E i \in 1..Len(installLog) :
                  \/ installLog[i].op = "extract"
                  \/ installLog[i] = Did("register", MinGWBinDir,
                                         installLog[i].present, "ok")

\* C21: the GNU target step comes after the Rust step, and rustup resolves
\* on the session PATH whenever the step calls it.
C21_RustupResolvableWhenCalled ==
    \A i \in 1..Len(installLog) :
        installLog[i].op = "rustup" =>
            /\ installLog[i].present
            /\ installLog[i].result = "ok"
            /\ \A j \in 1..Len(installLog) :
                  installLog[j].op = "run" => j < i

\* C22: when the setup script has run to its end, ~\.cargo\bin is an entry
\* of the user PATH if rustup-init.exe installed Rust in this run, and
\* C:\mingw64\bin is one if the archive was extracted or the marker was found
\* off the session PATH in this run.
C22_NewToolDirsRegistered ==
    (pc \in {"SetupDone", "recheck"}) =>
        /\ (\E i \in 1..Len(installLog) :
               installLog[i].op = "run" /\ installLog[i].result = "ok")
              => CargoBin \in Entries(userPath)
        /\ (\E i \in 1..Len(installLog) :
               \/ installLog[i].op = "extract" /\ installLog[i].result = "ok"
               \/ installLog[i].op = "register"
                     /\ installLog[i].target = MinGWBinDir)
              => MinGWBin \in Entries(userPath)

\* C24: a run whose build succeeded launches the executable that build
\* wrote, not an older one at a candidate path that comes first.
C24_LaunchedIsBuilt ==
    (buildExit = 0 /\ launched # "none") => launched = artifact

C25_SingleRequest ==
    /\ [](inFlight <= 1)
    /\ [][(isRefreshing /\ ignored' = ignored + 1) =>
            UNCHANGED <<providers, selectedProvider, isRefreshing, inFlight,
                        tabBar, tabsCurrent, settled>>]_vars

\* a trigger fired while a request was outstanding
C25_Witness ==
    /\ isRefreshing
    /\ inFlight = 1
    /\ ignored = 1

\* C26: isRefreshing is true exactly while a get_providers request is
\* outstanding; once the request has settled, by success, by rejection or
\* by an error thrown while rendering, it is false again.
C26_RefreshingIffOutstanding ==
    /\ isRefreshing <=> inFlight > 0
    /\ settled # "none" => ~isRefreshing

\* a request failed, the flag was reset, and a new refresh has not started
C26_Witness ==
    /\ settled \in {"rejected", "threw"}
    /\ ~isRefreshing
    /\ inFlight = 0

\* C27: selectedProvider is null or the very element of the current
\* providers list that has its name; it is never an object of an earlier
\* list and never a provider that the current list lacks.
C27_SelectedIsCurrentElement ==
    selectedProvider # <<>> =>
        /\ Find(providers, selectedProvider[1].name) # <<>>
        /\ Find(providers, selectedProvider[1].name)[1] = selectedProvider[1]

\* C28: when a provider is selected and the tab bar has been rendered for
\* the current providers list, the selected provider has a tab and exactly
\* that tab is marked active; the tab bar holds exactly the providers with
\* a percentage and no error when there is one, otherwise the first two
\* providers of the list.
C28_SelectedTabActive ==
    (selectedProvider # <<>> /\ tabsCurrent /\ variant = "app.js") =>
        /\ \E i \in 1..Len(tabBar) : tabBar[i].name = selectedProvider[1].name
        /\ \A i \in 1..Len(tabBar) :
              tabBar[i].active <=> tabBar[i].name = selectedProvider[1].name
        /\ LET successful == SelectSeq(providers, HasData)
           IN  [i \in 1..Len(tabBar) |-> tabBar[i].name] =
                 IF successful # <<>>
                 THEN [i \in 1..Len(successful) |-> successful[i].name]
                 ELSE [i \in 1..(IF Len(providers) < 2 THEN Len(providers)
                                 ELSE 2) |-> providers[i].name]

====
